---- MODULE Spec2Model ----
(***************************************************************************)
(* Model of TastyworksDataValidator (src/data_validator.py): header        *)
(* sniffing, loading, the data-quality and consistency checks, the summary *)
(* statistics and the orchestration in run_full_validation.                *)
(*                                                                         *)
(* Values of a DataFrame cell are tagged records: t = "num" (a parsed      *)
(* value), "null" (NaN / NaT, an empty cell) or "bad" (text that           *)
(* pd.to_numeric(errors='coerce') turns into NaN).  Amounts are integers   *)
(* in v.  Quantities are v + f/10 with f in 0..9, so that q % 1 = f/10.    *)
(* Timestamps are day v and hour f.  String cells use "" for NaN.          *)
(***************************************************************************)
EXTENDS Integers, Sequences, FiniteSets, TLC

VARIABLES file, now, errors, warnings, df, format_type, pc, calls, result,
          stats, reports, runs, fresh

vars == <<file, now, errors, warnings, df, format_type, pc, calls, result,
          stats, reports, runs, fresh>>

(* ------------------------------ bounds --------------------------------- *)
MaxHeaderCells == 2
MaxRows == 2
MaxKindRows == 3
MaxRuns == 2

(* ------------------------- generic helpers ----------------------------- *)
Range(s) == {s[i] : i \in 1..Len(s)}

SeqsUpTo(S, n) == UNION {[1..k -> S] : k \in 0..n}

RECURSIVE SumSeq(_)
SumSeq(s) == IF s = <<>> THEN 0 ELSE s[1] + SumSeq(Tail(s))

\* boolean indexing, series[mask]: the entries whose mask entry is True
RECURSIVE Keep(_, _)
Keep(s, mask) ==
  IF s = <<>> THEN <<>>
  ELSE (IF mask[1] THEN <<s[1]>> ELSE <<>>) \o Keep(Tail(s), Tail(mask))

\* mask.sum(), len(series[mask])
CountTrue(mask) == Cardinality({i \in 1..Len(mask) : mask[i]})

\* pandas unique(): distinct values in order of first appearance
RECURSIVE Unique(_)
Unique(s) ==
  IF s = <<>> THEN <<>>
  ELSE LET r == Unique(SubSeq(s, 1, Len(s) - 1))
           x == s[Len(s)]
       IN IF x \in Range(r) THEN r ELSE Append(r, x)

(* ------------------------- text helpers -------------------------------- *)
\* Python "needle in line"
Contains(line, needle) ==
  \E i \in 1..(Len(line) - Len(needle) + 1) :
     SubSeq(line, i, i + Len(needle) - 1) = needle

\* Python str.endswith
EndsWith(s, suffix) ==
  /\ Len(s) >= Len(suffix)
  /\ SubSeq(s, Len(s) - Len(suffix) + 1, Len(s)) = suffix

Whitespace == {" ", "\n"}

\* Python str.strip()
RECURSIVE Strip(_)
Strip(s) ==
  IF Len(s) = 0 THEN s
  ELSE IF SubSeq(s, 1, 1) \in Whitespace THEN Strip(SubSeq(s, 2, Len(s)))
  ELSE IF SubSeq(s, Len(s), Len(s)) \in Whitespace
       THEN Strip(SubSeq(s, 1, Len(s) - 1))
  ELSE s

\* a CSV header line written from its cells
RECURSIVE JoinCells(_)
JoinCells(cells) ==
  IF cells = <<>> THEN ""
  ELSE IF Len(cells) = 1 THEN cells[1]
  ELSE cells[1] \o "," \o JoinCells(Tail(cells))

\* f.readline() of a file whose header row has these cells
ReadLine(cells) == IF cells = <<>> THEN "" ELSE JoinCells(cells) \o "\n"

(* ------------------------- header sniffing ----------------------------- *)
new_format_headers == <<"Date", "Type", "Sub Type", "Action", "Symbol", "Value">>
legacy_format_headers ==
  <<"Date/Time", "Transaction Code", "Transaction Subcode", "Amount">>

MatchesAny(first_line, headers) ==
  \E k \in 1..Len(headers) : Contains(first_line, headers[k])

\* a plausible slip: the last branch falls through to the legacy format
SniffNoReject(first_line) ==
  IF MatchesAny(first_line, new_format_headers) THEN "new" ELSE "legacy"

\* a plausible slip: the Legacy tokens are tested first
SniffLegacyFirst(first_line) ==
  IF MatchesAny(first_line, legacy_format_headers) THEN "legacy"
  ELSE IF MatchesAny(first_line, new_format_headers) THEN "new"
  ELSE "invalid"

\* the classification made by validate_file_format on a stripped first line
Sniff(first_line) ==
  IF MatchesAny(first_line, new_format_headers) THEN "new"
  ELSE IF MatchesAny(first_line, legacy_format_headers) THEN "legacy"
  ELSE "invalid"

(* --------------------------- cell values ------------------------------- *)
Num(n) == [t |-> "num", v |-> n, f |-> 0]
Frac(n, tenths) == [t |-> "num", v |-> n, f |-> tenths]
NaN == [t |-> "null", v |-> 0, f |-> 0]
Bad == [t |-> "bad", v |-> 0, f |-> 0]
NA == ""

\* pd.to_numeric(..., errors='coerce'): text that is no number becomes NaN
ToNumeric(x) == IF x.t = "num" THEN x ELSE NaN

\* Series.isna() on one cell: only an empty cell is missing
IsNa(x) == x.t = "null"

Abs(n) == IF n < 0 THEN -n ELSE n

\* timestamps: day v, hour f
Before(a, b) == a.v < b.v \/ (a.v = b.v /\ a.f < b.f)

\* (b - a).days of a pandas Timedelta: whole days, rounded down
DaysBetween(a, b) == (b.v - a.v) - (IF b.f < a.f THEN 1 ELSE 0)

Stamps(rows) == Keep([i \in 1..Len(rows) |-> rows[i].dt],
                     [i \in 1..Len(rows) |-> rows[i].dt.t = "num"])

\* Series.min() / Series.max() of a datetime column: NaT is skipped, and
\* NaT is the answer when nothing is left
MinDate(rows) ==
  LET s == Stamps(rows)
  IN IF s = <<>> THEN NaN
     ELSE CHOOSE a \in Range(s) : \A b \in Range(s) : ~Before(b, a)

MaxDate(rows) ==
  LET s == Stamps(rows)
  IN IF s = <<>> THEN NaN
     ELSE CHOOSE a \in Range(s) : \A b \in Range(s) : ~Before(a, b)

(* ------------------------- program constants --------------------------- *)
LargeDateRangeDays == 2000
LargeAmount == 1000000
MaxSymbolLen == 10
MaxUnusualShown == 5

UpperOrSlash == {"A","B","C","D","E","F","G","H","I","J","K","L","M","N","O",
                 "P","Q","R","S","T","U","V","W","X","Y","Z","/"}

\* symbols.str.match(r'^[A-Z/]{1,10}$')
SymbolMatches(s) ==
  /\ Len(s) >= 1
  /\ Len(s) <= MaxSymbolLen
  /\ \A i \in 1..Len(s) : SubSeq(s, i, i) \in UpperOrSlash

Warning(msg, n, syms, dates) == [msg |-> msg, n |-> n, syms |-> syms, dates |-> dates]

Col(rows, field) == [i \in 1..Len(rows) |-> rows[i][field]]

\* Series.dropna() of a text column
DropNa(s) == Keep(s, [i \in 1..Len(s) |-> s[i] # NA])

(* ---------------------- validate_data_quality -------------------------- *)
\* lines 69-74: one warning per critical column with missing values
MissingWarning(d, col, n) ==
  IF col \in d.columns /\ n > 0 THEN <<Warning("missing values", n, <<col>>, <<>>)>>
  ELSE <<>>

\* a plausible slip: critical_columns lists Amount before Date/Time
MissingWarningsAmountFirst(d) ==
  MissingWarning(d, "Amount", CountTrue([i \in 1..Len(d.rows) |-> IsNa(d.rows[i].amount)]))
  \o MissingWarning(d, "Date/Time", CountTrue([i \in 1..Len(d.rows) |-> IsNa(d.rows[i].dt)]))
  \o MissingWarning(d, "Symbol", CountTrue([i \in 1..Len(d.rows) |-> d.rows[i].symbol = NA]))

MissingWarnings(d) ==
  MissingWarning(d, "Date/Time", CountTrue([i \in 1..Len(d.rows) |-> IsNa(d.rows[i].dt)]))
  \o MissingWarning(d, "Amount", CountTrue([i \in 1..Len(d.rows) |-> IsNa(d.rows[i].amount)]))
  \o MissingWarning(d, "Symbol", CountTrue([i \in 1..Len(d.rows) |-> d.rows[i].symbol = NA]))

\* a plausible slip: >= in place of > at line 82
DateRangeWarningAtLeast(d) ==
  LET min_date == MinDate(d.rows)
      max_date == MaxDate(d.rows)
  IN IF min_date.t = "num" /\ DaysBetween(min_date, max_date) >= LargeDateRangeDays
     THEN <<Warning("Large date range detected", DaysBetween(min_date, max_date),
                    <<>>, <<min_date.v, max_date.v>>)>>
     ELSE <<>>

\* lines 78-83: NaT - NaT has no day count, so no warning
DateRangeWarning(d) ==
  LET min_date == MinDate(d.rows)
      max_date == MaxDate(d.rows)
  IN IF min_date.t = "num" /\ DaysBetween(min_date, max_date) > LargeDateRangeDays
     THEN <<Warning("Large date range detected", DaysBetween(min_date, max_date),
                    <<>>, <<min_date.v, max_date.v>>)>>
     ELSE <<>>

\* lines 86-88
FutureDatesWarning(d, current) ==
  LET n == CountTrue([i \in 1..Len(d.rows) |->
                        d.rows[i].dt.t = "num" /\ Before(current, d.rows[i].dt)])
  IN IF n > 0 THEN <<Warning("transactions have future dates", n, <<>>, <<>>)>>
     ELSE <<>>

\* lines 95-97
LargeAmountsWarning(d) ==
  LET amounts == [i \in 1..Len(d.rows) |-> ToNumeric(d.rows[i].amount)]
      n == CountTrue([i \in 1..Len(amounts) |->
                        amounts[i].t = "num" /\ Abs(amounts[i].v) > LargeAmount])
  IN IF n > 0 THEN <<Warning("transactions with amounts > $1M", n, <<>>, <<>>)>>
     ELSE <<>>

\* a plausible slip: the Receive Deliver exemption is left out
IsZeroAmountRowNoExemption(row) ==
  /\ ToNumeric(row.amount).t = "num"
  /\ ToNumeric(row.amount).v = 0

\* line 100: (amounts == 0) & ~Transaction Code.isin(['Receive Deliver'])
IsZeroAmountRow(row) ==
  /\ ToNumeric(row.amount).t = "num"
  /\ ToNumeric(row.amount).v = 0
  /\ row.code # "Receive Deliver"

ZeroAmountCount(rows) == CountTrue([i \in 1..Len(rows) |-> IsZeroAmountRow(rows[i])])

\* lines 100-102
ZeroAmountsWarning(d) ==
  IF ZeroAmountCount(d.rows) > 0
  THEN <<Warning("transactions with zero amounts", ZeroAmountCount(d.rows), <<>>, <<>>)>>
  ELSE <<>>

FirstN(s, n) == SubSeq(s, 1, IF Len(s) < n THEN Len(s) ELSE n)

\* lines 106-112
SymbolShapeWarning(d) ==
  LET symbols == DropNa(Col(d.rows, "symbol"))
      unusual_symbols == Keep(symbols, [i \in 1..Len(symbols) |-> ~SymbolMatches(symbols[i])])
  IN IF Len(unusual_symbols) > 0
     THEN <<Warning("Unusual symbol formats detected", 0,
                    FirstN(Unique(unusual_symbols), MaxUnusualShown), <<>>)>>
     ELSE <<>>

\* pandas reads a column of empty cells only as float64, and the .str
\* accessor of line 109 raises AttributeError on it; a table without rows
\* has object columns
SymbolIsText(d) == d.rows = <<>> \/ \E i \in 1..Len(d.rows) : d.rows[i].symbol # NA

Outcome(ws, raised) == [ws |-> ws, raised |-> raised]

\* the warnings validate_data_quality appends, and whether it raises
DataQuality(d, current) ==
  IF ~d.loaded THEN Outcome(<<>>, FALSE) ELSE
  LET w1 == MissingWarnings(d)
      w2 == IF "Date/Time" \in d.columns
            THEN w1 \o DateRangeWarning(d) \o FutureDatesWarning(d, current)
            ELSE w1
      w3 == IF "Amount" \in d.columns THEN w2 \o LargeAmountsWarning(d) ELSE w2
      w4 == IF "Amount" \in d.columns THEN w3 \o ZeroAmountsWarning(d) ELSE w3
  IN IF "Date/Time" \in d.columns /\ d.objDates THEN Outcome(w1, TRUE)
     ELSE IF "Amount" \in d.columns /\ "Transaction Code" \notin d.columns
          THEN Outcome(w3, TRUE)
     ELSE IF "Symbol" \in d.columns /\ ~SymbolIsText(d) THEN Outcome(w4, TRUE)
     ELSE IF "Symbol" \in d.columns THEN Outcome(w4 \o SymbolShapeWarning(d), FALSE)
     ELSE Outcome(w4, FALSE)

(* ----------------- validate_transaction_consistency -------------------- *)
\* quantities % 1 != 0: NaN % 1 is NaN, and NaN != 0 is True
IsFractional(q) ==
  IF ToNumeric(q).t = "num" THEN ToNumeric(q).f # 0 ELSE TRUE

FractionalCount(rows, symbol) ==
  CountTrue([i \in 1..Len(rows) |->
               rows[i].symbol = symbol /\ IsFractional(rows[i].quantity)])

\* lines 127-131, for one symbol of the loop
FractionalWarning(d, symbol) ==
  IF ~EndsWith(symbol, "/USD") /\ FractionalCount(d.rows, symbol) > 0
  THEN <<Warning("Fractional quantities found", FractionalCount(d.rows, symbol),
                 <<symbol>>, <<>>)>>
  ELSE <<>>

SymbolsInOrder(rows) == Unique(DropNa(Col(rows, "symbol")))

RECURSIVE FractionalWarnings(_, _)
FractionalWarnings(d, symbols) ==
  IF symbols = <<>> THEN <<>>
  ELSE FractionalWarning(d, symbols[1]) \o FractionalWarnings(d, Tail(symbols))

TransactionConsistency(d) ==
  IF ~d.loaded THEN <<>> ELSE
  IF "Symbol" \in d.columns /\ "Quantity" \in d.columns
  THEN FractionalWarnings(d, SymbolsInOrder(d.rows))
  ELSE <<>>

(* ----------------------- generate_summary_stats ------------------------ *)
KindsInOrder(rows) == Unique(DropNa(Col(rows, "code")))

KindCount(rows, kind) == CountTrue([i \in 1..Len(rows) |-> rows[i].code = kind])

\* stable insertion of a <<kind, count>> pair into a list sorted by
\* descending count: a pair goes after the pairs with an equal count
RECURSIVE InsertByCount(_, _)
InsertByCount(sorted, pair) ==
  IF sorted = <<>> THEN <<pair>>
  ELSE IF sorted[1][2] >= pair[2]
       THEN <<sorted[1]>> \o InsertByCount(Tail(sorted), pair)
  ELSE <<pair>> \o sorted

RECURSIVE SortByCount(_)
SortByCount(pairs) ==
  IF pairs = <<>> THEN <<>>
  ELSE InsertByCount(SortByCount(SubSeq(pairs, 1, Len(pairs) - 1)), pairs[Len(pairs)])

\* a plausible slip: value_counts(sort=False), the kinds as first seen
ValueCountsUnsorted(rows) ==
  LET kinds == KindsInOrder(rows)
  IN [i \in 1..Len(kinds) |-> <<kinds[i], KindCount(rows, kinds[i])>>]

\* Series.value_counts().to_dict(): NaN dropped, most frequent kind first
ValueCounts(rows) ==
  LET kinds == KindsInOrder(rows)
  IN SortByCount([i \in 1..Len(kinds) |-> <<kinds[i], KindCount(rows, kinds[i])>>])

\* a plausible slip: amounts.sum() without abs()
TotalVolumeSigned(rows) ==
  LET amounts == [i \in 1..Len(rows) |-> ToNumeric(rows[i].amount)]
      parsed == Keep(amounts, [i \in 1..Len(amounts) |-> amounts[i].t = "num"])
  IN SumSeq([i \in 1..Len(parsed) |-> parsed[i].v])

\* abs(amounts).sum(): Series.sum() skips NaN, and an empty sum is 0
TotalVolume(rows) ==
  LET amounts == [i \in 1..Len(rows) |-> ToNumeric(rows[i].amount)]
      parsed == Keep(amounts, [i \in 1..Len(amounts) |-> amounts[i].t = "num"])
  IN SumSeq([i \in 1..Len(parsed) |-> Abs(parsed[i].v)])

\* lines 140-146: the stats before any column is looked at
NoStats == [total_transactions |-> 0, date_range |-> <<>>, unique_symbols |-> 0,
            transaction_types |-> <<>>, total_volume |-> 0]

DateOnly(x) == [t |-> x.t, v |-> x.v, f |-> 0]

SummaryStats(d) ==
  IF ~d.loaded THEN NoStats ELSE
  [total_transactions |-> Len(d.rows),
   date_range |-> IF "Date/Time" \in d.columns
                  THEN <<DateOnly(MinDate(d.rows)), DateOnly(MaxDate(d.rows))>>
                  ELSE <<>>,
   unique_symbols |-> IF "Symbol" \in d.columns
                      THEN Len(SymbolsInOrder(d.rows)) ELSE 0,
   transaction_types |-> IF "Transaction Code" \in d.columns
                         THEN ValueCounts(d.rows) ELSE <<>>,
   total_volume |-> IF "Amount" \in d.columns THEN TotalVolume(d.rows) ELSE 0]

(* ------------------------------ load_data ------------------------------ *)
NoDf == [loaded |-> FALSE, columns |-> {}, rows |-> <<>>, objDates |-> FALSE]

Df(columns, rows, objDates) ==
  [loaded |-> TRUE, columns |-> columns, rows |-> rows, objDates |-> objDates]

\* tw_pnl.transform_csv(csv_file): raises, or returns the text of a table
TransformCsv(f) == [ok |-> f.transformOk, columns |-> f.table.columns]

\* pd.read_csv(..., parse_dates=['Date/Time']) raises ValueError when the
\* text has no column named Date/Time
ReadCsv(columns, f) ==
  IF "Date/Time" \in columns
  THEN [ok |-> TRUE, df |-> Df(columns, f.table.rows, f.table.objDates)]
  ELSE [ok |-> FALSE, df |-> NoDf]

\* lines 47-61: the DataFrame load_data stores, or the failure it catches
LoadOutcome(f, fmt) ==
  IF fmt = "new"
  THEN IF TransformCsv(f).ok THEN ReadCsv(TransformCsv(f).columns, f)
       ELSE [ok |-> FALSE, df |-> NoDf]
  ELSE ReadCsv(Range(f.cells), f)

(* --------------------------- the validator ----------------------------- *)
Report(errs, warns, st, res) ==
  [errors |-> errs, warnings |-> warns, stats |-> st, result |-> res]

\* __init__ (lines 14-18); format_type is no attribute yet
Construct ==
  /\ pc = "done"
  /\ errors' = <<>>
  /\ warnings' = <<>>
  /\ df' = NoDf
  /\ format_type' = "unset"
  /\ pc' = "idle"
  /\ calls' = <<>>
  /\ result' = "none"
  /\ stats' = NoStats
  /\ UNCHANGED <<file, now, reports, runs, fresh>>

\* a call of run_full_validation, on a new validator or on a used one
RunFullValidation ==
  /\ pc \in {"idle", "done"}
  /\ runs < MaxRuns
  /\ runs' = runs + 1
  /\ fresh' = (pc = "idle")
  /\ pc' = "format"
  /\ calls' = <<>>
  /\ result' = "none"
  /\ stats' = NoStats
  /\ UNCHANGED <<file, now, errors, warnings, df, format_type, reports>>

\* lines 20-43, and lines 171-173 of the caller
ValidateFileFormat ==
  /\ pc = "format"
  /\ calls' = Append(calls, "validate_file_format")
  /\ LET fmt == IF file.readable THEN Sniff(Strip(ReadLine(file.cells))) ELSE "unreadable"
     IN IF fmt \in {"new", "legacy"}
        THEN /\ format_type' = fmt
             /\ pc' = "load"
             /\ UNCHANGED <<errors, result, reports>>
        ELSE /\ errors' = Append(errors,
                     IF fmt = "invalid"
                     THEN "Invalid CSV format - missing required headers"
                     ELSE "Cannot read file")
             /\ result' = "False"
             /\ pc' = "done"
             /\ reports' = Append(reports, Report(errors', warnings, stats, "False"))
             /\ UNCHANGED format_type
  /\ UNCHANGED <<file, now, warnings, df, stats, runs, fresh>>

\* a plausible slip: the caller ignores the value load_data returns
LoadDataIgnoresFailure ==
  /\ pc = "load"
  /\ calls' = Append(calls, "load_data")
  /\ LET out == LoadOutcome(file, format_type)
     IN IF out.ok
        THEN df' = out.df /\ UNCHANGED errors
        ELSE errors' = Append(errors, "Error loading data") /\ UNCHANGED df
  /\ pc' = "quality"
  /\ UNCHANGED <<file, now, warnings, format_type, stats, runs, fresh, result, reports>>

\* lines 45-61, and lines 178-180 of the caller
LoadData ==
  /\ pc = "load"
  /\ calls' = Append(calls, "load_data")
  /\ LET out == LoadOutcome(file, format_type)
     IN IF out.ok
        THEN /\ df' = out.df
             /\ pc' = "quality"
             /\ UNCHANGED <<errors, result, reports>>
        ELSE /\ errors' = Append(errors, "Error loading data")
             /\ result' = "False"
             /\ pc' = "done"
             /\ reports' = Append(reports, Report(errors', warnings, stats, "False"))
             /\ UNCHANGED df
  /\ UNCHANGED <<file, now, warnings, format_type, stats, runs, fresh>>

\* lines 63-114; an exception leaves run_full_validation
ValidateDataQuality ==
  /\ pc = "quality"
  /\ calls' = Append(calls, "validate_data_quality")
  /\ LET out == DataQuality(df, now)
     IN /\ warnings' = warnings \o out.ws
        /\ IF out.raised
           THEN /\ result' = "raised"
                /\ pc' = "done"
                /\ reports' = Append(reports, Report(errors, warnings', stats, "raised"))
           ELSE /\ pc' = "consistency"
                /\ UNCHANGED <<result, reports>>
  /\ UNCHANGED <<file, now, errors, df, format_type, stats, runs, fresh>>

\* lines 116-133
ValidateTransactionConsistency ==
  /\ pc = "consistency"
  /\ calls' = Append(calls, "validate_transaction_consistency")
  /\ warnings' = warnings \o TransactionConsistency(df)
  /\ pc' = "stats"
  /\ UNCHANGED <<file, now, errors, df, format_type, result, stats, reports, runs, fresh>>

\* lines 135-163
GenerateSummaryStats ==
  /\ pc = "stats"
  /\ calls' = Append(calls, "generate_summary_stats")
  /\ stats' = SummaryStats(df)
  /\ pc' = "report"
  /\ UNCHANGED <<file, now, errors, warnings, df, format_type, result, reports, runs, fresh>>

\* a plausible slip: findings of either list fail the run
ReturnValueAnyFinding(errs, warns) ==
  IF errs # <<>> \/ warns # <<>> THEN "False" ELSE "True"

\* lines 204-219: False exactly when self.errors is not empty
ReturnValue(errs, warns) == IF errs # <<>> THEN "False" ELSE "True"

\* lines 191-219: the printed report and the returned value
DisplayResults ==
  /\ pc = "report"
  /\ result' = ReturnValue(errors, warnings)
  /\ pc' = "done"
  /\ reports' = Append(reports, Report(errors, warnings, stats, result'))
  /\ UNCHANGED <<file, now, errors, warnings, df, format_type, calls, stats, runs, fresh>>

Next ==
  \/ Construct
  \/ RunFullValidation
  \/ ValidateFileFormat
  \/ LoadData
  \/ ValidateDataQuality
  \/ ValidateTransactionConsistency
  \/ GenerateSummaryStats
  \/ DisplayResults

(* ------------------------------ inputs --------------------------------- *)
AllColumns == {"Date/Time", "Transaction Code", "Symbol", "Amount", "Quantity"}

HeaderCells == {"Date/Time", "Transaction Code", "Amount", "Symbol", "Type",
                "Price", "Quantity"}

Row(dt, code, symbol, amount, quantity) ==
  [dt |-> dt, code |-> code, symbol |-> symbol, amount |-> amount,
   quantity |-> quantity]

RowsOver(DT, CODE, SYM, AMT, QTY) ==
  {Row(dt, code, symbol, amount, quantity) :
     dt \in DT, code \in CODE, symbol \in SYM, amount \in AMT, quantity \in QTY}

\* the dtype pandas gives the Date/Time column: object when a date fails
\* to parse, datetime64 when all of at least one parse
DtypeOk(rows, objDates) ==
  /\ (\E i \in 1..Len(rows) : rows[i].dt.t = "bad") => objDates
  /\ (rows # <<>> /\ \A i \in 1..Len(rows) : rows[i].dt.t # "bad") => ~objDates

Tables(columnSets, rowSet, n) ==
  {t \in [columns : columnSets, rows : SeqsUpTo(rowSet, n), objDates : BOOLEAN] :
     DtypeOk(t.rows, t.objDates)}

File(readable, cells, transformOk, table) ==
  [readable |-> readable, cells |-> cells, transformOk |-> transformOk,
   table |-> table]

EmptyTable == [columns |-> AllColumns, rows |-> <<>>, objDates |-> FALSE]

Today == Num(2500)

InitValidator ==
  /\ now = Today
  /\ errors = <<>>
  /\ warnings = <<>>
  /\ df = NoDf
  /\ format_type = "unset"
  /\ pc = "idle"
  /\ calls = <<>>
  /\ result = "none"
  /\ stats = NoStats
  /\ reports = <<>>
  /\ runs = 0
  /\ fresh = TRUE

SampleRows ==
  {Row(Num(0), "Trade", "AAPL", Num(0), Frac(10, 5)),
   Row(Num(0), "Receive Deliver", "BTC/USD", Num(5), Num(10))}

\* the header row of a Legacy export
LegacyExportHeader ==
  <<"Date/Time", "Transaction Code", "Transaction Subcode", "Symbol", "Buy/Sell",
    "Open/Close", "Quantity", "Expiration Date", "Strike", "Call/Put", "Price",
    "Fees", "Amount", "Description", "Account Reference">>

\* the header row of a New export
NewExportHeader ==
  <<"Date", "Type", "Sub Type", "Action", "Symbol", "Instrument Type",
    "Description", "Value", "Quantity", "Average Price", "Commissions", "Fees",
    "Multiplier", "Root Symbol", "Underlying Symbol", "Expiration Date",
    "Strike Price", "Call or Put", "Order #", "Currency">>

\* files with every header row of up to MaxHeaderCells cells, and a Legacy export
HeaderFiles ==
  {File(FALSE, <<>>, FALSE, EmptyTable)}
  \cup {File(TRUE, LegacyExportHeader, ok, EmptyTable) : ok \in BOOLEAN}
  \cup {File(TRUE, cells, FALSE, EmptyTable) : cells \in SeqsUpTo(HeaderCells, MaxHeaderCells)}
  \cup {File(TRUE, cells, TRUE, t) :
          cells \in SeqsUpTo(HeaderCells, MaxHeaderCells),
          t \in Tables({AllColumns, AllColumns \ {"Date/Time"}}, SampleRows, MaxRows)}

Init == file \in HeaderFiles /\ InitValidator

Spec == Init /\ [][Next]_vars

\* a New export whose transformed text parses to table t
DataFile(t) == File(TRUE, NewExportHeader, TRUE, t)

\* tables that differ in transaction kind and amount
AmountRows ==
  RowsOver({Num(0)}, {"Trade", "Receive Deliver", NA}, {"AAPL"},
           {NaN, Bad, Num(0), Num(-7), Num(5)}, {Num(10)})

AmountFiles ==
  {DataFile(t) :
     t \in Tables({AllColumns, AllColumns \ {"Amount"}, AllColumns \ {"Transaction Code"}},
                  AmountRows, MaxRows)}

InitAmounts == file \in AmountFiles /\ InitValidator

SpecAmounts == InitAmounts /\ [][Next]_vars

\* tables that differ in symbol and quantity
QuantityRows ==
  RowsOver({Num(0)}, {"Trade"}, {"AAPL", "MSFT", "BTC/USD", NA}, {Num(5)},
           {NaN, Bad, Num(10), Frac(10, 5)})

QuantityFiles ==
  {DataFile(t) :
     t \in Tables({AllColumns, AllColumns \ {"Quantity"}}, QuantityRows, MaxRows)}

InitQuantities == file \in QuantityFiles /\ InitValidator

SpecQuantities == InitQuantities /\ [][Next]_vars

\* tables that differ in transaction kind
KindRows ==
  RowsOver({Num(0)}, {"Trade", "Receive Deliver", "Money Movement", NA}, {"AAPL"},
           {Num(5)}, {Num(10)})

KindFiles ==
  {DataFile(t) :
     t \in Tables({AllColumns, AllColumns \ {"Transaction Code", "Amount"}},
                  KindRows, MaxKindRows)}

InitKinds == file \in KindFiles /\ InitValidator

SpecKinds == InitKinds /\ [][Next]_vars

\* a parsed timestamp: day and hour of the day
Stamp(day, hour) == [t |-> "num", v |-> day, f |-> hour]

\* tables that differ in timestamp: around the 2000-day limit, after the
\* current time, empty and unparseable
DateRows ==
  RowsOver({Stamp(0, 0), Stamp(0, 12), Stamp(2000, 0), Stamp(2000, 12),
            Stamp(2001, 0), Stamp(3000, 0), NaN, Bad},
           {"Trade"}, {"AAPL"}, {Num(5)}, {Num(10)})

DateFiles == {DataFile(t) : t \in Tables({AllColumns}, DateRows, MaxRows)}

InitDates == file \in DateFiles /\ InitValidator

SpecDates == InitDates /\ [][Next]_vars

\* tables with every subset of the columns
ColumnFiles == {DataFile(t) : t \in Tables(SUBSET AllColumns, SampleRows, MaxRows)}

InitColumns == file \in ColumnFiles /\ InitValidator

SpecColumns == InitColumns /\ [][Next]_vars

\* rows that trigger the rules: empty cells; a zero amount, a lower-case
\* symbol and a fractional quantity; a future date 3000 days later with an
\* amount over $1M; and a row with no finding
FindingRows ==
  {Row(NaN, "Trade", NA, NaN, Num(10)),
   Row(Stamp(0, 0), "Trade", "aapl", Num(0), Frac(10, 5)),
   Row(Stamp(3000, 0), "Trade", "MSFT", Num(LargeAmount + 1), Frac(1, 5)),
   Row(Stamp(0, 0), "Receive Deliver", "BTC/USD", Num(5), Num(10))}

FindingFiles == {DataFile(t) : t \in Tables({AllColumns}, FindingRows, MaxRows)}

InitFindings == file \in FindingFiles /\ InitValidator

SpecFindings == InitFindings /\ [][Next]_vars

(* ======================================================================= *)
(* Properties                                                              *)
(* ======================================================================= *)
FirstLine == Strip(ReadLine(file.cells))

MatchesNew == \E k \in 1..Len(new_format_headers) :
                 Contains(FirstLine, new_format_headers[k])

MatchesLegacy == \E k \in 1..Len(legacy_format_headers) :
                    Contains(FirstLine, legacy_format_headers[k])

Called(stage) == stage \in Range(calls)

InvalidFormatMsg == "Invalid CSV format - missing required headers"

\* C1: a readable file whose first line holds no New and no Legacy token is
\* rejected: once validate_file_format has run, the last error is the
\* invalid-format message and the run has returned False; load_data is
\* never called and the dataset is never loaded.
C1_NoTokenRejected ==
  (file.readable /\ ~MatchesNew /\ ~MatchesLegacy) =>
     /\ ~Called("load_data")
     /\ ~df.loaded
     /\ pc \notin {"load", "quality", "consistency", "stats", "report"}
     /\ Called("validate_file_format") =>
          /\ pc = "done"
          /\ result = "False"
          /\ errors # <<>>
          /\ errors[Len(errors)] = InvalidFormatMsg

C1_Witness ==
  /\ file.readable /\ file.cells # <<>>
  /\ ~MatchesNew /\ ~MatchesLegacy
  /\ pc = "done" /\ result = "False"
  /\ errors = <<InvalidFormatMsg>>

ContainsAllLegacy == \A k \in 1..Len(legacy_format_headers) :
                        Contains(FirstLine, legacy_format_headers[k])

\* C2: header sniffing is unambiguous: the first line of a readable file
\* never matches both token sets, and once validate_file_format has run on
\* a line holding all four Legacy tokens, format_type is "legacy".
C2_SniffingUnambiguous ==
  (file.readable /\ Called("validate_file_format")) =>
     /\ ~(MatchesNew /\ MatchesLegacy)
     /\ ContainsAllLegacy => format_type = "legacy"

\* C3: the New tokens are tested first: once validate_file_format has run on
\* a readable file, format_type is "new" exactly when the first line matches
\* a New token (whatever Legacy tokens it also holds), and "legacy" exactly
\* when it matches no New token and some Legacy token; nothing but the first
\* line enters the classification.
C3_NewTestedFirst ==
  (file.readable /\ Called("validate_file_format")) =>
     /\ MatchesNew => format_type = "new"
     /\ (~MatchesNew /\ MatchesLegacy) => format_type = "legacy"
     /\ format_type = "legacy" => (~MatchesNew /\ MatchesLegacy)
     /\ format_type = "new" => MatchesNew

C3_Witness ==
  /\ file.readable /\ Called("validate_file_format")
  /\ MatchesNew /\ MatchesLegacy
  /\ format_type = "new"

\* C4: when run_full_validation has returned, the value is False exactly
\* when the errors list is not empty, whatever the warnings are.
C4_FalseIffErrors ==
  (pc = "done" /\ result \in {"True", "False"}) =>
     (result = "False" <=> errors # <<>>)

C4_Witness ==
  /\ pc = "done" /\ result = "True"
  /\ warnings # <<>> /\ errors = <<>>

CheckStages == {"validate_data_quality", "validate_transaction_consistency",
                "generate_summary_stats"}

\* C5: a run on a fresh validator that fails in format detection or in
\* loading ends with exactly one error, no warning, and none of
\* validate_data_quality, validate_transaction_consistency and
\* generate_summary_stats executed.
C5_FailureStopsRun ==
  (fresh /\ pc = "done" /\ errors # <<>>) =>
     /\ Len(errors) = 1
     /\ warnings = <<>>
     /\ Range(calls) \cap CheckStages = {}
     /\ stats = NoStats
     /\ result = "False"

C5_Witness ==
  /\ fresh /\ pc = "done"
  /\ calls = <<"validate_file_format", "load_data">>
  /\ errors = <<"Error loading data">>
  /\ file.table.rows # <<>>

\* C6: two runs on the same unchanged file at the same time report the
\* same errors, warnings and stats, also when the second run is made on
\* the validator object of the first.
C6_RunsIdentical ==
  file.readable => \A i, j \in 1..Len(reports) : reports[i] = reports[j]

Added == SubSeq(warnings', Len(warnings) + 1, Len(warnings'))

ZeroRows == {i \in 1..Len(df.rows) :
               /\ df.rows[i].amount.t = "num"
               /\ df.rows[i].amount.v = 0
               /\ df.rows[i].code # "Receive Deliver"}

\* the zero-amount rule of line 100 is reached and does not raise
ZeroRuleRuns ==
  /\ "Amount" \in df.columns
  /\ "Transaction Code" \in df.columns
  /\ ~("Date/Time" \in df.columns /\ df.objDates)

ZeroWarningsAdded ==
  {k \in 1..Len(Added) : Added[k].msg = "transactions with zero amounts"}

\* C7: a call of validate_data_quality appends the zero-amount warning, once,
\* exactly when its zero-amount rule runs and some row has a parsed amount
\* of 0 and a kind other than 'Receive Deliver'; the count of the warning is
\* the number of those rows, so rows of kind 'Receive Deliver' and rows with
\* a null or unparseable amount are not counted.
C7_ZeroAmountWarning ==
  [][pc = "quality" =>
       IF ZeroRuleRuns /\ ZeroRows # {}
       THEN /\ Cardinality(ZeroWarningsAdded) = 1
            /\ \A k \in ZeroWarningsAdded : Added[k].n = Cardinality(ZeroRows)
       ELSE ZeroWarningsAdded = {}]_vars

C7_Witness ==
  /\ pc = "consistency"
  /\ Len(df.rows) = 2
  /\ df.rows[1].amount = Num(0) /\ df.rows[1].code = "Receive Deliver"
  /\ df.rows[2].amount = Num(0) /\ df.rows[2].code = "Trade"
  /\ warnings = <<Warning("transactions with zero amounts", 1, <<>>, <<>>)>>

HasFraction(q) == q.t = "num" /\ q.f # 0

FractionRows(symbol) ==
  {i \in 1..Len(df.rows) : df.rows[i].symbol = symbol /\ HasFraction(df.rows[i].quantity)}

RECURSIVE ClaimedFractionalWarnings(_)
ClaimedFractionalWarnings(symbols) ==
  IF symbols = <<>> THEN <<>>
  ELSE (IF ~EndsWith(symbols[1], "/USD") /\ FractionRows(symbols[1]) # {}
        THEN <<Warning("Fractional quantities found",
                       Cardinality(FractionRows(symbols[1])), <<symbols[1]>>, <<>>)>>
        ELSE <<>>)
       \o ClaimedFractionalWarnings(Tail(symbols))

\* C8: on a dataset with Symbol and Quantity columns, a call of
\* validate_transaction_consistency appends, in first-seen symbol order, one
\* warning for each non-null symbol not ending with '/USD' that has a row
\* whose quantity has a non-zero fractional part, with the number of those
\* rows as its count; rows with a missing or unparseable quantity are not
\* counted.
C8_FractionalWarnings ==
  [][(pc = "consistency" /\ {"Symbol", "Quantity"} \subseteq df.columns) =>
       Added = ClaimedFractionalWarnings(SymbolsInOrder(df.rows))]_vars

StatsReturned == Called("generate_summary_stats")

Keys(pairs) == [i \in 1..Len(pairs) |-> pairs[i][1]]

RowsOfKind(kind) == {i \in 1..Len(df.rows) : df.rows[i].code = kind}

ValuesAreCounts ==
  \A i \in 1..Len(stats.transaction_types) :
     stats.transaction_types[i][2] = Cardinality(RowsOfKind(stats.transaction_types[i][1]))

\* C9 as stated: the keys of transaction_types are the kinds in the order
\* they first appear in the rows, and each value is the number of rows of
\* that kind.
C9_FirstSeenOrder ==
  (StatsReturned /\ "Transaction Code" \in df.columns) =>
     /\ Keys(stats.transaction_types) = KindsInOrder(df.rows)
     /\ ValuesAreCounts

\* C9 as amended: the keys of transaction_types are the distinct non-null
\* kinds, each once, ordered by descending count (the most frequent kind
\* first), and each value is the number of rows of that kind.
C9_DescendingCountOrder ==
  (StatsReturned /\ "Transaction Code" \in df.columns) =>
     LET tt == stats.transaction_types
     IN /\ {tt[i][1] : i \in 1..Len(tt)} = {df.rows[i].code : i \in 1..Len(df.rows)} \ {NA}
        /\ \A i, j \in 1..Len(tt) : tt[i][1] = tt[j][1] => i = j
        /\ \A i, j \in 1..Len(tt) : i < j => tt[i][2] >= tt[j][2]
        /\ ValuesAreCounts

C9_Witness ==
  /\ StatsReturned
  /\ Len(df.rows) = 3
  /\ df.rows[1].code = "Trade"
  /\ Keys(stats.transaction_types) = <<"Receive Deliver", "Trade">>
  /\ KindsInOrder(df.rows) = <<"Trade", "Receive Deliver">>

RECURSIVE SumAbsParsed(_)
SumAbsParsed(rows) ==
  IF rows = <<>> THEN 0
  ELSE (IF rows[1].amount.t # "num" THEN 0
        ELSE IF rows[1].amount.v < 0 THEN 0 - rows[1].amount.v
        ELSE rows[1].amount.v)
       + SumAbsParsed(Tail(rows))

\* C10: total_volume is the sum of the absolute values of the amounts of
\* the rows whose amount parses; rows with a null or unparseable amount add
\* nothing and do not make the sum fail, and it is 0 when no amount parses.
C10_TotalVolume ==
  StatsReturned =>
     /\ "Amount" \in df.columns => stats.total_volume = SumAbsParsed(df.rows)
     /\ (\A i \in 1..Len(df.rows) : df.rows[i].amount.t # "num") => stats.total_volume = 0

C10_Witness ==
  /\ StatsReturned
  /\ Len(df.rows) = 2
  /\ df.rows[1].amount = Bad
  /\ df.rows[2].amount = Num(-7)
  /\ stats.total_volume = 7

\* the date-range rule of lines 78-83 is reached and does not raise
DateRuleRuns == "Date/Time" \in df.columns /\ ~df.objDates

ParsedDates == {df.rows[i].dt : i \in {k \in 1..Len(df.rows) : df.rows[k].dt.t = "num"}}

Earliest == CHOOSE a \in ParsedDates :
              \A b \in ParsedDates : a.v < b.v \/ (a.v = b.v /\ a.f <= b.f)

Latest == CHOOSE a \in ParsedDates :
            \A b \in ParsedDates : b.v < a.v \/ (a.v = b.v /\ b.f <= a.f)

\* the latest timestamp is more than 2000 days after the earliest
SpanExceedsLimit ==
  /\ ParsedDates # {}
  /\ \/ Latest.v - Earliest.v > LargeDateRangeDays
     \/ (Latest.v - Earliest.v = LargeDateRangeDays /\ Latest.f > Earliest.f)

\* the latest timestamp is at least 2001 whole days after the earliest
WholeDaysExceedLimit ==
  /\ ParsedDates # {}
  /\ \/ Latest.v - Earliest.v > LargeDateRangeDays + 1
     \/ (Latest.v - Earliest.v = LargeDateRangeDays + 1 /\ Latest.f >= Earliest.f)

DateWarningsAdded ==
  {k \in 1..Len(Added) : Added[k].msg = "Large date range detected"}

\* C11 as stated: a call of validate_data_quality whose date-range rule runs
\* appends the date-range warning exactly when the span between the
\* earliest and the latest timestamp exceeds 2000 days, and the warning
\* names both boundary dates, the earliest first.
C11_SpanOver2000Days ==
  [][(pc = "quality" /\ DateRuleRuns) =>
       /\ DateWarningsAdded # {} <=> SpanExceedsLimit
       /\ \A k \in DateWarningsAdded : Added[k].dates = <<Earliest.v, Latest.v>>]_vars

\* C11 as amended: a call of validate_data_quality whose date-range rule
\* runs appends the date-range warning, once, exactly when the span between
\* the earliest and the latest timestamp, counted in whole days rounded
\* down, exceeds 2000 (a span of 2000 days and some hours gives no warning);
\* the warning names that day count and both boundary dates, the earliest
\* first.  A call whose rule does not run appends no such warning.
C11_WholeDaysOver2000 ==
  [][pc = "quality" =>
       IF DateRuleRuns /\ WholeDaysExceedLimit
       THEN /\ Cardinality(DateWarningsAdded) = 1
            /\ \A k \in DateWarningsAdded :
                  /\ Added[k].dates = <<Earliest.v, Latest.v>>
                  /\ Added[k].n > LargeDateRangeDays
                  /\ Added[k].n \in {Latest.v - Earliest.v, Latest.v - Earliest.v - 1}
       ELSE DateWarningsAdded = {}]_vars

C11_Witness ==
  /\ pc = "consistency"
  /\ Len(df.rows) = 2
  /\ df.rows[1].dt = Stamp(2001, 0)
  /\ df.rows[2].dt = Stamp(0, 0)
  /\ warnings = <<Warning("Large date range detected", 2001, <<>>, <<0, 2001>>)>>

\* the columns that are present hold nothing the checks raise on
PresentColumnsWellFormed == ~df.objDates /\ SymbolIsText(df)

\* C12: on a loaded dataset that lacks any of the columns, the three checks
\* complete without raising: no run ends in an exception, and the returned
\* stats keep the zero or empty default of every statistic whose column is
\* absent.
C12_AbsentColumnsSkipped ==
  (df.loaded /\ PresentColumnsWellFormed) =>
     /\ result # "raised"
     /\ StatsReturned =>
          /\ "Symbol" \notin df.columns => stats.unique_symbols = 0
          /\ "Transaction Code" \notin df.columns => stats.transaction_types = <<>>
          /\ "Amount" \notin df.columns => stats.total_volume = 0

\* the place of a warning in the order of the rules
Rank(w) ==
  IF w.msg = "missing values"
  THEN (IF w.syms = <<"Date/Time">> THEN 1 ELSE IF w.syms = <<"Amount">> THEN 2 ELSE 3)
  ELSE IF w.msg = "Large date range detected" THEN 4
  ELSE IF w.msg = "transactions have future dates" THEN 5
  ELSE IF w.msg = "transactions with amounts > $1M" THEN 6
  ELSE IF w.msg = "transactions with zero amounts" THEN 7
  ELSE IF w.msg = "Unusual symbol formats detected" THEN 8
  ELSE 9

IsFractionalWarning(w) == w.msg = "Fractional quantities found"

\* C13: in every step of a run the warnings list keeps its entries and only
\* grows at the end, and the checks leave the dataset unchanged;
\* validate_data_quality appends at most one warning per rule, in the order
\* missing Date/Time, missing Amount, missing Symbol, date range, future
\* dates, extreme amounts, zero amounts, symbol shape;
\* validate_transaction_consistency, which runs after it, appends only
\* fractional-quantity warnings; no other step appends a warning.
C13_WarningsAppendedInRuleOrder ==
  [][(pc # "done") =>
       /\ Len(warnings') >= Len(warnings)
       /\ SubSeq(warnings', 1, Len(warnings)) = warnings
       /\ pc \in {"quality", "consistency", "stats"} => df' = df
       /\ pc = "quality" =>
            /\ pc' \in {"consistency", "done"}
            /\ \A i \in 1..Len(Added) : ~IsFractionalWarning(Added[i])
            /\ \A i, j \in 1..Len(Added) : i < j => Rank(Added[i]) < Rank(Added[j])
       /\ pc = "consistency" =>
            \A i \in 1..Len(Added) : IsFractionalWarning(Added[i])
       /\ pc \notin {"quality", "consistency"} => Added = <<>>]_vars

C13_Witness ==
  /\ fresh /\ pc = "stats"
  /\ Len(warnings) = 7
  /\ [i \in 1..7 |-> Rank(warnings[i])] = <<4, 5, 6, 7, 8, 9, 9>>
  /\ warnings[6].syms = <<"aapl">>
  /\ warnings[7].syms = <<"MSFT">>

====
